---- MODULE Spec2Model ----
(***************************************************************************)
(* ESP32 macro pad firmware (ESP32-Macro-pad.ino) as a state machine.      *)
(*                                                                         *)
(* Text is modelled as a sequence of chunks: a chunk is a piece of text    *)
(* that the firmware never splits (a marker, a file name, a JSON body, a   *)
(* blank).  A String of the firmware is a Seq of chunks, a path is a TLA+  *)
(* string.  Time is millis(), in milliseconds.                             *)
(***************************************************************************)
EXTENDS Integers, Sequences, FiniteSets, TLC

\* ------------------------------------------------------------ constants
NUM_KEYS == 12
NUM_PROFILES == 3
DEFAULT_DEBOUNCE_MS == 50
DEFAULT_DELAY_MS == 30
KEY_FLASH_MS == 40
KEY_PULSE_MS == 25
COOLDOWN_MS == 300
TOUCH_DELTA == 300
BOTH_HOLD_MS == 3000
TOUCH_SAMPLE_MS == 2
FLASH_ON_MS == 120
FLASH_OFF_SWITCH_MS == 60
FLASH_OFF_MS == 80
LOOP_DELAY_MS == 8

\* ------------------------------------------------------------ bounds
\* Keys 1..ModelKeys of the NUM_KEYS keys are scanned by the model.
ModelKeys == 2
\* millis() is followed up to MaxTime.
MaxTime == 340
\* Payload lines one recording may hold.
MaxBufLines == 2
\* Calls of atomicWriteToLittleFS in one run.
MaxWrites == 1
\* millis() is followed up to MaxMacroTime where macros of any length run.
MaxMacroTime == 900
\* millis() is followed up to MaxTouchTime where the touch pads are scanned.
MaxTouchTime == 1400
\* millis() is followed up to MaxFailsafeTime where both pads are held.
MaxFailsafeTime == 5300
\* millis() is followed up to MaxProfileTime where every way to change the
\* profile is open, and scanTouchProfileSwitch for MaxProfileScans calls.
MaxProfileTime == 520
MaxProfileScans == 1
\* millis() is followed up to MaxRaceTime where a macro, a gesture and an upload
\* meet.
MaxRaceTime == 600
\* scanTouchProfileSwitch is followed for MaxTouchScans calls.
MaxTouchScans == 6
\* millis() is followed up to MaxBlockedTime where keys change while the loop
\* is held.
MaxBlockedTime == 380

Keys == 1..ModelKeys
Profiles == 1..NUM_PROFILES

\* ------------------------------------------------------------ text
Blank == " "
Newline == "\n"
BEGIN_MARK == "###BEGIN###"
END_MARK == "###END###"
Whitespace == {Blank, Newline}

RECURSIVE Join(_)
\* The text of a chunk sequence as one string.
Join(s) == IF s = <<>> THEN "" ELSE Head(s) \o Join(Tail(s))

RECURSIVE TrimLeft(_)
TrimLeft(s) ==
  IF s # <<>> /\ Head(s) \in Whitespace THEN TrimLeft(Tail(s)) ELSE s

RECURSIVE TrimRight(_)
TrimRight(s) ==
  IF s # <<>> /\ s[Len(s)] \in Whitespace
  THEN TrimRight(SubSeq(s, 1, Len(s) - 1))
  ELSE s

\* String::trim(): leading and trailing whitespace removed.
Trim(s) == TrimRight(TrimLeft(s))

\* String::toLowerCase() on the chunks the model feeds in.
ToLower(c) ==
  CASE c = "SETPROFILE" -> "setprofile"
    [] c = "STATUS" -> "status"
    [] c = "KEY" -> "key"
    [] c = "Repeat" -> "repeat"
    [] OTHER -> c

\* The upper-case form equalsIgnoreCase compares, on the names the model uses.
ToUpper(c) ==
  CASE c = "a" -> "A"
    [] c = "r" -> "R"
    [] c = "left_ctrl" -> "LEFT_CTRL"
    [] c = "flash" -> "FLASH"
    [] c = "breathe" -> "BREATHE"
    [] OTHER -> c

\* String::indexOf(' '): position of the first blank, 0 when there is none.
IndexOfBlank(s) ==
  IF \E i \in 1..Len(s) : s[i] = Blank
  THEN CHOOSE i \in 1..Len(s) : s[i] = Blank /\ \A j \in 1..(i - 1) : s[j] # Blank
  ELSE 0

Digits == {"0", "1", "2", "3", "4", "5", "6", "7", "8", "9"}
DigitVal(c) ==
  CASE c = "0" -> 0 [] c = "1" -> 1 [] c = "2" -> 2 [] c = "3" -> 3
    [] c = "4" -> 4 [] c = "5" -> 5 [] c = "6" -> 6 [] c = "7" -> 7
    [] c = "8" -> 8 [] c = "9" -> 9

RECURSIVE ToIntFrom(_, _)
ToIntFrom(s, acc) ==
  IF s # <<>> /\ Head(s) \in Digits
  THEN ToIntFrom(Tail(s), 10 * acc + DigitVal(Head(s)))
  ELSE acc

\* String::toInt(): the leading digits, 0 when there are none.
ToInt(s) == ToIntFrom(s, 0)

\* ------------------------------------------------------------ documents
\* A JSON object is a record; a member that is absent is absent from DOMAIN.
EmptyDoc == [m \in {} |-> 0]

DefaultDoc(id) ==
  [profile_name |-> "Profile" \o ToString(id),
   idle_animation |-> "none",
   default_delay |-> DEFAULT_DELAY_MS,
   keys |-> <<>>]

DocA ==
  [profile_name |-> "A",
   idle_animation |-> "breathe",
   default_delay |-> 10,
   keys |-> << [id |-> 1, actions |-> << [type |-> "key", value |-> "A"] >>],
               [id |-> 2, actions |-> << [type |-> "delay", ms |-> 60] >>] >>]

DocB ==
  [profile_name |-> "B",
   idle_animation |-> "rainbow",
   default_delay |-> 20,
   keys |-> << [id |-> 1, actions |-> << [type |-> "comment"] >>],
               [id |-> 2] >>]

\* Key combinations, with the letter last and with the letter first.
DocK ==
  [profile_name |-> "K",
   idle_animation |-> "none",
   default_delay |-> 10,
   keys |-> << [id |-> 1, actions |-> << [type |-> "keycombo",
                                          keys |-> <<"LEFT_CTRL", "LEFT_SHIFT", "R">>] >>],
               [id |-> 2, actions |-> << [type |-> "keycombo",
                                          keys |-> <<"R", "LEFT_SHIFT", "x", "left_ctrl">>] >>] >>]

\* Repeats: a count over the cap, no count, nested counts, counts below one.
DocR ==
  [profile_name |-> "R",
   idle_animation |-> "none",
   default_delay |-> 0,
   keys |-> << [id |-> 1, actions |-> << [type |-> "repeat", count |-> 60,
                                          actions |-> << [type |-> "mouse_click"] >>] >>],
               [id |-> 2, actions |->
                  << [type |-> "Repeat",
                      actions |-> << [type |-> "repeat", count |-> 2, actions |->
                                        << [type |-> "repeat", count |-> 3, actions |->
                                              << [type |-> "key", value |-> "R"] >>] >>] >>],
                     [type |-> "repeat", count |-> 0,
                      actions |-> << [type |-> "key", value |-> "ENTER"] >>],
                     [type |-> "repeat", count |-> -4,
                      actions |-> << [type |-> "mouse_click", button |-> "RIGHT"] >>] >>] >>]

\* Sequences: every kind of timing, and a Profile action before other actions.
DocS ==
  [profile_name |-> "S",
   idle_animation |-> "none",
   default_delay |-> 10,
   keys |-> << [id |-> 1, actions |-> << [type |-> "KEY", value |-> "A"],
                                         [type |-> "delay", ms |-> 60],
                                         [type |-> "text", value |-> <<"h", "i">>],
                                         [type |-> "led_anim", value |-> "flash"],
                                         [type |-> "comment"] >>],
               [id |-> 2, actions |-> << [type |-> "profile", value |-> 7],
                                         [type |-> "key", value |-> "A"],
                                         [type |-> "key", value |-> "R"] >>] >>]

\* Profile actions inside a Repeat, and one that loads the profile it is in.
DocL ==
  [profile_name |-> "L",
   default_delay |-> 10,
   keys |-> << [id |-> 1, actions |-> << [type |-> "repeat", count |-> 2, actions |->
                                            << [type |-> "profile", value |-> 2],
                                               [type |-> "key", value |-> "A"] >>] >>],
               [id |-> 2, actions |-> << [type |-> "profile", value |-> 0],
                                         [type |-> "hold", key |-> "LEFT_ALT"],
                                         [type |-> "media", value |-> "MUTE"],
                                         [type |-> "release"] >>] >>]

\* Held keys: a Hold followed by actions of other kinds and a Release, and a
\* Hold that no Release follows.
DocH ==
  [profile_name |-> "H",
   idle_animation |-> "none",
   default_delay |-> 10,
   keys |-> << [id |-> 1, actions |-> << [type |-> "hold", key |-> "LEFT_ALT"],
                                         [type |-> "key", value |-> "A"],
                                         [type |-> "keycombo", keys |-> <<"LEFT_CTRL", "R">>],
                                         [type |-> "mouse_click"],
                                         [type |-> "release"] >>],
               [id |-> 2, actions |-> << [type |-> "hold", key |-> "LEFT_SHIFT"],
                                         [type |-> "media", value |-> "MUTE"],
                                         [type |-> "text", value |-> <<"h">>] >>] >>]

\* Several bindings of one id: two with actions, and one without actions before
\* one with actions.
DocD ==
  [profile_name |-> "D",
   idle_animation |-> "none",
   default_delay |-> 10,
   keys |-> << [id |-> 1, actions |-> << [type |-> "key", value |-> "A"] >>],
               [id |-> 1, actions |-> << [type |-> "key", value |-> "R"] >>],
               [id |-> 2],
               [id |-> 2, actions |-> << [type |-> "key", value |-> "ENTER"] >>] >>]

\* The text of a document is a body chunk followed by its closing brace.
CloseBrace == "}"
JsonBodies ==
  {"{A", "{B", "{K", "{R", "{S", "{L", "{H", "{D"}
    \cup {"{default" \o ToString(id) : id \in Profiles}
JsonBodyDoc(c) ==
  CASE c = "{A" -> DocA
    [] c = "{B" -> DocB
    [] c = "{K" -> DocK
    [] c = "{R" -> DocR
    [] c = "{S" -> DocS
    [] c = "{L" -> DocL
    [] c = "{H" -> DocH
    [] c = "{D" -> DocD
    [] OTHER -> DefaultDoc(CHOOSE id \in Profiles : c = "{default" \o ToString(id))

\* serializeJson of the default document.
serializeJson(id) == << "{default" \o ToString(id), CloseBrace >>

StripWs(s) == SelectSeq(s, LAMBDA c : c \notin Whitespace)

\* deserializeJson(doc, s): the first JSON value of s, blanks skipped and what
\* follows it ignored.  The document is cleared before parsing; on an error it
\* holds nothing or the members read before the error (partial).
deserializeJson(s, partial) ==
  LET t == StripWs(s)
  IN IF Len(t) >= 2 /\ t[1] \in JsonBodies /\ t[2] = CloseBrace
     THEN [err |-> FALSE, doc |-> JsonBodyDoc(t[1])]
     ELSE [err |-> TRUE,
           doc |-> IF partial /\ Len(t) >= 1 /\ t[1] \in JsonBodies
                   THEN JsonBodyDoc(t[1])
                   ELSE EmptyDoc]

\* ------------------------------------------------------------ files
\* The filesystem is a function from the paths that exist to their content.
ProfilePath(id) == "/profile" \o ToString(id) \o ".json"
profileFiles == [i \in Profiles |-> ProfilePath(i)]

FsExists(f, path) == path \in DOMAIN f
FsPut(f, path, content) ==
  [p \in DOMAIN f \cup {path} |-> IF p = path THEN content ELSE f[p]]
FsRemove(f, path) == [p \in DOMAIN f \ {path} |-> f[p]]

readFileStr(f, path) == IF FsExists(f, path) THEN f[path] ELSE <<>>
writeFileStr(f, path, content) == FsPut(f, path, content)

VARIABLES
  now,                  \* millis()
  raw,                  \* GPIO: raw[i] is TRUE while key i reads LOW (pressed)
  keyState, keyLastChange, keyLastPressMillis,
  scanPos,              \* the key the for loop of scanKeys reads next
  currentProfile, profileDoc, profileLoaded, idleAnimation, macroRunning,
  serialBuffer, serialRecording, serialTargetFile,
  fs,
  jsonPartial,          \* the JSON library keeps the members read before an error
  danglingRead,         \* what reading a JSON array of a cleared document yields
  baselineA, baselineB, touchA, touchB,
  lastA, lastB, touchLastDebounceA, touchLastDebounceB, bothStart,
  awPc, awTarget, awData, awResult,
  \* history variables, read by the properties only
  rawChangedAt, edges, macroStarts, heldScanned, awayAtChange,
  blockedChange,        \* what key i's level did while the loop was last held
  loadCalls, hidLog,
  lineFlip, lastKind, lastLineRec, lastLineTo, recLines,
  awFsBefore, awShort, awCalls,
  fires, lastFireAt, touchScans, gestures,
  bothSince             \* when the scans began to read both pads active, or -1

progVars ==
  << now, raw, keyState, keyLastChange, keyLastPressMillis, scanPos,
     currentProfile, profileDoc, profileLoaded, idleAnimation, macroRunning,
     serialBuffer, serialRecording, serialTargetFile, fs, jsonPartial, danglingRead,
     baselineA, baselineB, touchA, touchB,
     lastA, lastB, touchLastDebounceA, touchLastDebounceB, bothStart,
     awPc, awTarget, awData, awResult >>
histVars ==
  << rawChangedAt, edges, macroStarts, heldScanned, awayAtChange, blockedChange,
     loadCalls, hidLog,
     lineFlip, lastKind, lastLineRec, lastLineTo, recLines,
     awFsBefore, awShort, awCalls,
     fires, lastFireAt, touchScans, gestures, bothSince >>
vars == << progVars, histVars >>

keyVars == << keyState, keyLastChange, keyLastPressMillis, scanPos >>
keyHist ==
  << rawChangedAt, edges, macroStarts, heldScanned, awayAtChange, blockedChange >>
profVars == << currentProfile, profileDoc, profileLoaded, idleAnimation >>
serialVars == << serialBuffer, serialRecording, serialTargetFile >>
serialHist == << lineFlip, lastKind, lastLineRec, lastLineTo, recLines >>
touchEnv == << baselineA, baselineB, touchA, touchB >>
touchVars == << lastA, lastB, touchLastDebounceA, touchLastDebounceB, bothStart >>
touchHist == << fires, lastFireAt, touchScans, gestures, bothSince >>
awVars == << awPc, awTarget, awData, awResult >>
awHist == << awFsBefore, awShort, awCalls >>

\* ------------------------------------------------------------ profiles
\* The state the handlers thread through their calls: the globals they write,
\* millis() (t), and the calls made so far (loads, hid).
Machine ==
  [fs |-> fs, doc |-> profileDoc, cur |-> currentProfile,
   loaded |-> profileLoaded, idle |-> idleAnimation, running |-> macroRunning,
   t |-> now, loads |-> <<>>, hid |-> <<>>]

ProfileView(m) ==
  [doc |-> m.doc, cur |-> m.cur, loaded |-> m.loaded, idle |-> m.idle]

ensureDefaultProfile_NoWrite(m, id) == m
ensureDefaultProfile(m, id) ==
  IF id < 1 \/ id > NUM_PROFILES THEN m
  ELSE IF ~FsExists(m.fs, ProfilePath(id))
       THEN [m EXCEPT !.fs = writeFileStr(@, ProfilePath(id), serializeJson(id))]
       ELSE m

IdleAnimationOf(doc) ==
  LET anim == IF "idle_animation" \in DOMAIN doc THEN doc.idle_animation ELSE "none"
  IN IF anim = "breathe" THEN 1 ELSE IF anim = "rainbow" THEN 2 ELSE 0

\* One call of loadProfile, as the history keeps it.
LoadCall(id, ok, why, before, after) ==
  [id |-> id, ok |-> ok, why |-> why,
   before |-> ProfileView(before), after |-> ProfileView(after),
   existed |-> FsExists(before.fs, ProfilePath(id)),
   had |-> readFileStr(before.fs, ProfilePath(id)),
   has |-> readFileStr(after.fs, ProfilePath(id))]

loadProfile(m, id) ==
  IF id < 1 \/ id > NUM_PROFILES
  THEN [m EXCEPT !.loads = Append(@, LoadCall(id, FALSE, "range", m, m))]
  ELSE LET m1 == ensureDefaultProfile(m, id)
           s == readFileStr(m1.fs, ProfilePath(id))
           r == deserializeJson(s, jsonPartial)
           \* deserializeJson writes into the global profileDoc
           m2 == [m1 EXCEPT !.doc = r.doc]
       IN IF Len(s) = 0
          THEN [m1 EXCEPT !.loads = Append(@, LoadCall(id, FALSE, "empty", m, m1))]
          ELSE IF r.err
          THEN [m2 EXCEPT !.loads = Append(@, LoadCall(id, FALSE, "parse", m, m2))]
          ELSE LET m3 == [m2 EXCEPT !.loaded = TRUE, !.cur = id,
                                    !.idle = IdleAnimationOf(r.doc)]
               IN [m3 EXCEPT !.loads = Append(@, LoadCall(id, TRUE, "ok", m, m3))]

\* ------------------------------------------------------------ macro engine
MAX_TEXT_LEN == 4096
MAX_REPEAT_COUNT == 50
COMBO_HOLD_MS == 20
TEXT_CHAR_MS == 30
TEXT_END_MS == 20

\* keyMap, as far as the model's documents name keys.
keyNameToHid(name) ==
  CASE ToUpper(name) = "A" -> 4
    [] ToUpper(name) = "R" -> 21
    [] ToUpper(name) = "ENTER" -> 40
    [] OTHER -> 0

\* modMap: the code of a modifier name, 0 for any other name.
modifierNameToCode(name) ==
  CASE ToUpper(name) = "LEFT_CTRL" -> 128
    [] ToUpper(name) = "LEFT_SHIFT" -> 129
    [] ToUpper(name) = "LEFT_ALT" -> 130
    [] OTHER -> 0

\* mediaMap.
mediaNameToCode(name) ==
  CASE ToUpper(name) = "MUTE" -> 226
    [] ToUpper(name) = "PLAY_PAUSE" -> 205
    [] OTHER -> 0

\* doc[member] | fallback
Member(obj, member, fallback) ==
  IF member \in DOMAIN obj THEN obj[member] ELSE fallback

DefaultDelayOf(doc) == Member(doc, "default_delay", DEFAULT_DELAY_MS)

delay(m, ms) == [m EXCEPT !.t = @ + ms]

\* A call the history keeps: what was called, with what, and macroRunning then.
Emit(m, ev, arg) ==
  [m EXCEPT !.hid = Append(@, [ev |-> ev, arg |-> arg, running |-> m.running])]

\* delay(profileDoc["default_delay"] | 30)
defaultDelay(m) ==
  delay(Emit(m, "default_delay", DefaultDelayOf(m.doc)), DefaultDelayOf(m.doc))

pressKey(m, keyname) ==
  IF Len(keyname) = 0 THEN m
  ELSE LET hid == keyNameToHid(keyname)
       IN IF hid = 0
          THEN IF Len(keyname) = 1
               THEN delay(Emit(m, "print", keyname), KEY_PULSE_MS)
               ELSE m
          ELSE Emit(delay(Emit(m, "pressRaw", hid), KEY_PULSE_MS), "releaseRaw", hid)

RECURSIVE pressModifiers(_, _)
\* sendKeyCombo's first loop: Keyboard.press of every modifier of the list.
pressModifiers(m, keysArr) ==
  IF keysArr = <<>> THEN m
  ELSE LET code == modifierNameToCode(Head(keysArr))
       IN pressModifiers(IF code # 0 THEN Emit(m, "press", code) ELSE m, Tail(keysArr))

RECURSIVE pressOthers(_, _)
\* sendKeyCombo's second loop: pressKey of every name that is no modifier.
pressOthers(m, keysArr) ==
  IF keysArr = <<>> THEN m
  ELSE pressOthers(IF modifierNameToCode(Head(keysArr)) # 0 THEN m
                   ELSE pressKey(m, Head(keysArr)), Tail(keysArr))

sendKeyCombo(m, keysArr) ==
  Emit(delay(pressOthers(pressModifiers(m, keysArr), keysArr), COMBO_HOLD_MS),
       "releaseAll", 0)

RECURSIVE sendText(_, _)
\* Keyboard.write of every character, 30 ms after each, 20 ms at the end.
sendText(m, text) ==
  IF text = <<>> THEN delay(m, TEXT_END_MS)
  ELSE sendText(delay(Emit(m, "write", Head(text)), TEXT_CHAR_MS), Tail(text))

\* flashAll(r, g, b, times, msOn, msOff) holds the loop for its delays.
flashAll(m, times, msOn, msOff) ==
  delay(Emit(m, "flashAll", times * (msOn + msOff)), times * (msOn + msOff))

\* How many loadProfile calls of m reached deserializeJson, which clears the
\* document and with it every JsonArray and JsonObject read from it before.
ClearCount(m) == Len(SelectSeq(m.loads, LAMBDA c : c.why \in {"parse", "ok"}))

\* What a JsonArray reads as once its document was cleared and parsed anew: the
\* elements it had, or none. The choice matters only where a binding holds a
\* Profile action; the runs whose profiles hold none fix it.
DanglingReads == {"kept", "end"}
DanglingArray(arr) == IF danglingRead = "kept" THEN arr ELSE <<>>

\* The Profile action's target.
profileTarget_Unclamped(act) == Member(act, "value", 1)
profileTarget(act) ==
  LET p == Member(act, "value", 1)
  IN IF p < 1 THEN 1 ELSE IF p > NUM_PROFILES THEN NUM_PROFILES ELSE p

\* The number of passes of a Repeat action.
repeatCount_Unclamped(act) == Member(act, "count", 1)
repeatCount(act) ==
  LET count == Member(act, "count", 1)
  IN IF count < 1 THEN 1
     ELSE IF count > MAX_REPEAT_COUNT THEN MAX_REPEAT_COUNT ELSE count

RECURSIVE executeAction(_, _)
RECURSIVE runActions(_, _)
RECURSIVE repeatActions(_, _, _)

\* The for loop of a Repeat action: act["actions"] is read anew on each pass.
repeatActions(m, actions, count) ==
  IF count = 0 THEN m
  ELSE LET m1 == runActions(m, actions)
       IN IF ClearCount(m1) > ClearCount(m)
          THEN repeatActions(m1, DanglingArray(actions), count - 1)
          ELSE repeatActions(m1, actions, count - 1)

executeAction(m, act) ==
  IF "type" \notin DOMAIN act THEN m
  ELSE LET type == ToLower(act.type)
           m0 == Emit(m, "action", type)
       IN CASE type = "comment" -> m0
            [] type = "delay" ->
                 LET ms == Member(act, "ms", 0)
                 IN IF ms > 0 THEN delay(Emit(m0, "delay", ms), ms) ELSE m0
            [] type = "key" ->
                 defaultDelay(pressKey(m0, Member(act, "value", "")))
            [] type = "keycombo" /\ "keys" \in DOMAIN act ->
                 defaultDelay(sendKeyCombo(m0, act.keys))
            [] type \in {"text", "multiline"} ->
                 LET txt == Member(act, "value", <<>>)
                     cut == IF Len(txt) > MAX_TEXT_LEN THEN SubSeq(txt, 1, MAX_TEXT_LEN)
                            ELSE txt
                 IN defaultDelay(sendText(m0, cut))
            [] type = "hold" ->
                 LET k == Member(act, "key", "")
                     code == modifierNameToCode(k)
                     hid == keyNameToHid(k)
                 IN IF code # 0 THEN Emit(m0, "press", code)
                    ELSE IF hid # 0 THEN Emit(m0, "press", hid) ELSE m0
            [] type = "release" -> Emit(m0, "releaseAll", 0)
            [] type = "repeat" ->
                 IF "actions" \in DOMAIN act
                 THEN repeatActions(m0, act.actions, repeatCount(act))
                 ELSE m0
            [] type = "media" ->
                 LET code == mediaNameToCode(Member(act, "value", ""))
                 IN IF code # 0
                    THEN Emit(delay(Emit(m0, "consumerPress", code), COMBO_HOLD_MS),
                              "consumerRelease", 0)
                    ELSE m0
            [] type = "mouse_move" ->
                 Emit(m0, "mouseMove", << Member(act, "x", 0), Member(act, "y", 0) >>)
            [] type = "mouse_click" ->
                 LET b == ToUpper(Member(act, "button", ""))
                 IN Emit(m0, "mouseClick",
                         IF b = "RIGHT" THEN 2 ELSE IF b = "MIDDLE" THEN 4 ELSE 1)
            [] type = "led" ->
                 IF "color" \in DOMAIN act THEN Emit(m0, "led", act.color) ELSE m0
            [] type = "led_anim" ->
                 LET a == ToUpper(Member(act, "value", ""))
                 IN IF a = "FLASH" THEN flashAll(m0, 2, FLASH_ON_MS, FLASH_OFF_MS)
                    ELSE IF a = "BREATHE" THEN Emit(m0, "breatheAll", 1)
                    ELSE m0
            [] type = "profile" -> loadProfile(m0, profileTarget(act))
            [] type = "telephony" ->
                 IF ToUpper(Member(act, "value", "")) = "MIC_MUTE"
                 THEN delay(Emit(m0, "telephony", 47), 10)
                 ELSE m0
            [] OTHER -> m0

\* for (JsonVariant v : actions): the array is read again after each action.
runActions(m, actions) ==
  IF actions = <<>> THEN m
  ELSE LET m1 == executeAction(m, Head(actions))
       IN IF ClearCount(m1) > ClearCount(m)
          THEN runActions(defaultDelay(m1), DanglingArray(Tail(actions)))
          ELSE runActions(defaultDelay(m1), Tail(actions))

FirstBinding_WithActions(keysArr, keyId) ==
  LET idx == {k \in DOMAIN keysArr :
                Member(keysArr[k], "id", 0) = keyId /\ "actions" \in DOMAIN keysArr[k]}
  IN IF idx = {} THEN <<>>
     ELSE << keysArr[CHOOSE k \in idx : \A l \in idx : k <= l] >>
RECURSIVE FirstBinding(_, _)
\* The first element of keysArr whose id is keyId, <<>> when there is none.
FirstBinding(keysArr, keyId) ==
  IF keysArr = <<>> THEN <<>>
  ELSE LET ko == Head(keysArr)
           id == Member(ko, "id", 0)
       IN IF id = keyId THEN <<ko>> ELSE FirstBinding(Tail(keysArr), keyId)

\* The history's record of a binding being started: the key and the profile.
MacroStart(m, keyId) ==
  Emit(m, "macro", << keyId, Member(m.doc, "profile_name", "unnamed") >>)

runMacroForKey_Held(m, keyId) ==
  IF ~m.loaded THEN m
  ELSE IF "keys" \notin DOMAIN m.doc THEN m
  ELSE LET found == FirstBinding(m.doc.keys, keyId)
       IN IF found # <<>> /\ "actions" \in DOMAIN found[1]
          THEN runActions([MacroStart(m, keyId) EXCEPT !.running = TRUE],
                          found[1].actions)
          ELSE m
runMacroForKey_Unguarded(m, keyId) ==
  IF ~m.loaded THEN m
  ELSE IF "keys" \notin DOMAIN m.doc THEN m
  ELSE LET found == FirstBinding(m.doc.keys, keyId)
       IN IF found # <<>> /\ "actions" \in DOMAIN found[1]
          THEN runActions(MacroStart(m, keyId), found[1].actions)
          ELSE m
runMacroForKey(m, keyId) ==
  IF ~m.loaded THEN m
  ELSE IF "keys" \notin DOMAIN m.doc THEN m
  ELSE LET found == FirstBinding(m.doc.keys, keyId)
       IN IF found # <<>> /\ "actions" \in DOMAIN found[1]
          THEN [runActions([MacroStart(m, keyId) EXCEPT !.running = TRUE],
                           found[1].actions)
                  EXCEPT !.running = FALSE]
          ELSE m

\* ------------------------------------------------------------ setup
\* setup() up to loop(): initButtons reads the keys at millis() = 0, samples the
\* touch baseline and starts USB, which takes SetupMs, and loadProfile(1) runs.
SetupMs == 10 + 8 * 20 + 10 + 10

RECURSIVE EnsureAll(_, _)
\* setup(): every missing profile file is written with its default document.
EnsureAll(f, id) ==
  IF id > NUM_PROFILES THEN f
  ELSE EnsureAll(IF FsExists(f, profileFiles[id]) THEN f
                 ELSE writeFileStr(f, profileFiles[id], serializeJson(id)), id + 1)

\* The state setup() leaves, from the files f0 found in flash, the key levels
\* r0 and the touch readings a0, b0 read while it runs.
setup(f0, r0, a0, b0, partial) ==
  LET boot == [fs |-> EnsureAll(f0, 1), doc |-> EmptyDoc, cur |-> 1,
               loaded |-> FALSE, idle |-> 0, running |-> FALSE,
               t |-> SetupMs, loads |-> <<>>, hid |-> <<>>]
      r == deserializeJson(readFileStr(boot.fs, ProfilePath(1)), partial)
      m == IF r.err THEN [boot EXCEPT !.doc = r.doc]
           ELSE [boot EXCEPT !.doc = r.doc, !.loaded = TRUE,
                             !.idle = IdleAnimationOf(r.doc)]
  IN /\ now = SetupMs
     /\ raw = r0
     /\ keyState = r0
     /\ keyLastChange = [i \in Keys |-> 0]
     /\ keyLastPressMillis = [i \in Keys |-> 0]
     /\ scanPos = 1
     /\ currentProfile = 1
     /\ profileDoc = m.doc
     /\ profileLoaded = m.loaded
     /\ idleAnimation = m.idle
     /\ macroRunning = FALSE
     /\ serialBuffer = <<>>
     /\ serialRecording = FALSE
     /\ serialTargetFile = ""
     /\ fs = m.fs
     /\ jsonPartial = partial
     /\ baselineA = a0
     /\ baselineB = b0
     /\ touchA = a0
     /\ touchB = b0
     /\ lastA = FALSE
     /\ lastB = FALSE
     /\ touchLastDebounceA = 0
     /\ touchLastDebounceB = 0
     /\ bothStart = 0
     /\ awPc = "idle"
     /\ awTarget = ""
     /\ awData = <<>>
     /\ awResult = FALSE
     /\ rawChangedAt = [i \in Keys |-> 0]
     /\ edges = [i \in Keys |-> 0]
     /\ macroStarts = [i \in Keys |-> 0]
     /\ heldScanned = [i \in Keys |-> TRUE]
     /\ awayAtChange = [i \in Keys |-> FALSE]
     /\ blockedChange = [i \in Keys |-> "none"]
     /\ loadCalls = <<>>
     /\ hidLog = <<>>
     /\ lineFlip = FALSE
     /\ lastKind = "none"
     /\ lastLineRec = FALSE
     /\ lastLineTo = "none"
     /\ recLines = <<>>
     /\ awFsBefore = m.fs
     /\ awShort = FALSE
     /\ awCalls = 0
     /\ fires = [p \in {"A", "B"} |-> 0]
     /\ lastFireAt = [p \in {"A", "B"} |-> -1]
     /\ touchScans = 0
     /\ bothSince = -1
     /\ gestures = <<>>

\* Flash as a run can find it: blank, holding uploaded profiles, or holding a
\* profile whose upload was cut before its closing brace.
FreshFlash == [p \in {} |-> <<>>]
UserFlash ==
  [p \in {ProfilePath(1), ProfilePath(2)} |->
     IF p = ProfilePath(1) THEN <<"{A", CloseBrace, Newline>>
     ELSE <<"{B", Newline, CloseBrace, Newline>>]
CutFlash ==
  [p \in {ProfilePath(1), ProfilePath(2)} |->
     IF p = ProfilePath(1) THEN <<"{A", CloseBrace, Newline>>
     ELSE <<"{B", Newline>>]

\* Flash whose first profile is the document of body chunk c.
MacroFlash(c) ==
  [p \in {ProfilePath(1), ProfilePath(2)} |->
     IF p = ProfilePath(1) THEN <<c, CloseBrace, Newline>>
     ELSE <<"{B", Newline, CloseBrace, Newline>>]

AllReleased == [i \in Keys |-> FALSE]
FirstHeld == [i \in Keys |-> i = 1]

\* ------------------------------------------------------------ environment
\* Time passes: the loop's delay(8) and whatever else holds it.
Tick(d, limit) ==
  /\ awPc = "idle"
  /\ now + d <= limit
  /\ now' = now + d
  /\ UNCHANGED << raw, keyVars, profVars, macroRunning, serialVars, fs, jsonPartial, danglingRead,
                  touchEnv, touchVars, awVars, histVars >>

\* The level of key i changes (a press, a release, a bounce).
RawChange(i) ==
  /\ raw' = [raw EXCEPT ![i] = ~@]
  /\ rawChangedAt' = [rawChangedAt EXCEPT ![i] = now]
  /\ edges' = [edges EXCEPT ![i] = 0]
  /\ macroStarts' = [macroStarts EXCEPT ![i] = 0]
  /\ heldScanned' = [heldScanned EXCEPT ![i] = FALSE]
  /\ awayAtChange' = [awayAtChange EXCEPT ![i] = (raw'[i] # keyState[i])]
  /\ blockedChange' = [blockedChange EXCEPT ![i] = "none"]
  /\ UNCHANGED << now, keyVars, profVars, macroRunning, serialVars, fs, jsonPartial, danglingRead,
                  touchEnv, touchVars, awVars, loadCalls, hidLog, serialHist,
                  awHist, touchHist >>

\* ------------------------------------------------------------ scanKeys
\* Whether the body of the for loop commits the level it read for key i.
scanKeysCommits_LongWindow(i) ==
  /\ raw[i] # keyState[i]
  /\ now - keyLastChange[i] > DEFAULT_DEBOUNCE_MS + DEFAULT_DEBOUNCE_MS
scanKeysCommits(i) ==
  /\ raw[i] # keyState[i]
  /\ now - keyLastChange[i] > DEFAULT_DEBOUNCE_MS

\* The stable level the commit stores for key i.
scanKeysStable_Kept(i) == keyState[i]
scanKeysStable(i) == raw[i]

\* The levels of the keys other than the one being handled can change while
\* delay() holds the loop. NoChange: none does. Otherwise key j's level changes
\* while the loop is held: "tap", it is back where it was when the loop goes
\* on; "held", it stays changed.
NoChange == [key |-> 0, kind |-> "none"]
BlockedChanges == [key : Keys, kind : {"tap", "held"}]

\* One pass of the body of scanKeys' for loop, for key scanPos: the read, the
\* commit, on a Pressed edge the macro and the 40 ms highlight. env is what the
\* other keys do meanwhile, and rest is the time from the end of the for loop
\* to the next call of scanKeys.
scanKeysStep(limit, rest, env) ==
  LET i == scanPos
      runs == raw[i] /\ ~macroRunning /\ profileLoaded
      pos == IF scanPos = ModelKeys THEN 1 ELSE scanPos + 1
      blocks == scanKeysCommits(i) /\ raw[i]
      j == env.key
  IN /\ awPc = "idle"
     /\ j # 0 => blocks /\ j # i
     \* the macro is run once and its outcome handed on as a value
     /\ \E m \in {IF blocks /\ runs THEN runMacroForKey(Machine, i) ELSE Machine} :
        \E resumed \in {IF blocks THEN m.t + KEY_FLASH_MS ELSE now} :
        \E after \in {resumed + (IF scanPos = ModelKeys THEN rest ELSE 0)} :
        /\ after # now => after <= limit
        /\ now' = after
        /\ IF scanKeysCommits(i)
           THEN /\ keyState' = [keyState EXCEPT ![i] = scanKeysStable(i)]
                /\ keyLastChange' = [keyLastChange EXCEPT ![i] = now]
                /\ IF raw[i]
                   THEN /\ keyLastPressMillis' = [keyLastPressMillis EXCEPT ![i] = now]
                        /\ currentProfile' = m.cur
                        /\ profileDoc' = m.doc
                        /\ profileLoaded' = m.loaded
                        /\ idleAnimation' = m.idle
                        /\ macroRunning' = m.running
                        /\ fs' = m.fs
                        /\ loadCalls' = m.loads
                        /\ hidLog' = m.hid
                        /\ gestures' = <<>>
                   ELSE UNCHANGED << keyLastPressMillis, profVars,
                                     macroRunning, fs, loadCalls, hidLog, gestures >>
           ELSE UNCHANGED << keyState, keyLastChange, keyLastPressMillis,
                             profVars, macroRunning, fs, loadCalls, hidLog,
                             gestures >>
        /\ scanPos' = pos
        /\ raw' = [k \in Keys |-> IF k = j /\ env.kind = "held" THEN ~raw[k] ELSE raw[k]]
        /\ rawChangedAt' = [k \in Keys |-> IF k = j THEN resumed - 1 ELSE rawChangedAt[k]]
        /\ awayAtChange' =
             [k \in Keys |-> IF k = j THEN raw'[k] # keyState[k] ELSE awayAtChange[k]]
        /\ edges' =
             [k \in Keys |-> IF k = j THEN 0
                             ELSE IF k = i /\ scanKeysCommits(i) THEN edges[k] + 1
                             ELSE edges[k]]
        /\ macroStarts' =
             [k \in Keys |-> IF k = j THEN 0
                             ELSE IF k = i /\ blocks /\ runs THEN macroStarts[k] + 1
                             ELSE macroStarts[k]]
        /\ heldScanned' =
             [k \in Keys |-> IF k = j THEN FALSE
                             ELSE IF k = i
                             THEN heldScanned[k] \/ (now - rawChangedAt[k] > DEFAULT_DEBOUNCE_MS)
                             ELSE heldScanned[k]]
        /\ blockedChange' =
             [k \in Keys |-> IF k = j THEN env.kind
                             ELSE IF k = i /\ blockedChange[k] = "held" THEN "scanned"
                             ELSE blockedChange[k]]
        /\ UNCHANGED << serialVars, jsonPartial, danglingRead, touchEnv, touchVars, awVars,
                        serialHist, awHist, fires, lastFireAt, touchScans, bothSince >>

\* The same with the other keys left alone, the loop going on at once.
scanKeysWithin(limit) == scanKeysStep(limit, 0, NoChange)

scanKeys == scanKeysWithin(MaxTime)

\* ------------------------------------------------------------ atomicWriteToLittleFS
\* The call runs one filesystem step at a time (awPc), so that every state it
\* passes through, and may be stopped in, is a state of the model.
TmpPath(target) == target \o ".tmp"
\* "/backups/" + (targetPath + 1) + "-" + millis() + ".bak", targetPath
\* starting with "/".
BackupPath(target, t) == "/backups" \o target \o "-" \o ToString(t) \o ".bak"

awUnchanged ==
  UNCHANGED << now, raw, keyVars, profVars, macroRunning, serialVars, jsonPartial, danglingRead,
               touchEnv, touchVars, awTarget, awData, keyHist, loadCalls, hidLog,
               serialHist, awFsBefore, awCalls, touchHist >>

\* LittleFS.open(tmp, "w"): the temporary file is created empty, or the open fails.
AwOpen ==
  /\ awPc = "open"
  /\ \/ /\ fs' = FsPut(fs, TmpPath(awTarget), <<>>)
        /\ awPc' = "write"
        /\ UNCHANGED awResult
     \/ /\ awPc' = "ret"
        /\ awResult' = FALSE
        /\ UNCHANGED fs
  /\ UNCHANGED awShort
  /\ awUnchanged

\* Where the call goes after f.write returned w.
AwAfterWrite_Unchecked(w) == "backup"
AwAfterWrite(w) == IF w # Len(awData) THEN "short" ELSE "backup"

\* f.write(data, len); f.close(): w of the len chunks reach the file.
AwWrite ==
  /\ awPc = "write"
  /\ \E w \in 0..Len(awData) :
       /\ fs' = FsPut(fs, TmpPath(awTarget), SubSeq(awData, 1, w))
       /\ awShort' = (w # Len(awData))
       /\ awPc' = AwAfterWrite(w)
  /\ UNCHANGED awResult
  /\ awUnchanged

\* w != len: the temporary file is removed and the call returns false.
AwShort ==
  /\ awPc = "short"
  /\ fs' = FsRemove(fs, TmpPath(awTarget))
  /\ awResult' = FALSE
  /\ awPc' = "ret"
  /\ UNCHANGED awShort
  /\ awUnchanged

\* An existing target is copied to /backups under the current millis().
AwBackup ==
  /\ awPc = "backup"
  /\ fs' = IF FsExists(fs, awTarget)
           THEN FsPut(fs, BackupPath(awTarget, now), fs[awTarget])
           ELSE fs
  /\ awPc' = "remove"
  /\ UNCHANGED << awResult, awShort >>
  /\ awUnchanged

\* LittleFS.remove(targetPath).
AwRemove ==
  /\ awPc = "remove"
  /\ fs' = FsRemove(fs, awTarget)
  /\ awPc' = "rename"
  /\ UNCHANGED << awResult, awShort >>
  /\ awUnchanged

\* return LittleFS.rename(tmp, targetPath): the rename is done, or it fails.
AwRename ==
  /\ awPc = "rename"
  /\ \/ /\ fs' = FsPut(FsRemove(fs, TmpPath(awTarget)), awTarget, fs[TmpPath(awTarget)])
        /\ awResult' = TRUE
     \/ /\ awResult' = FALSE
        /\ UNCHANGED fs
  /\ awPc' = "ret"
  /\ UNCHANGED awShort
  /\ awUnchanged

\* ------------------------------------------------------------ serial
startsWithBegin(line) == Len(line) > 0 /\ line[1] = BEGIN_MARK

\* cliHandleLine's command and argument.
CliCmd(s) ==
  LET sp == IndexOfBlank(s)
      word == IF sp = 0 THEN s ELSE SubSeq(s, 1, sp - 1)
  IN Join([k \in 1..Len(word) |-> ToLower(word[k])])
CliArg(s) ==
  LET sp == IndexOfBlank(s)
  IN IF sp = 0 THEN <<>> ELSE Trim(SubSeq(s, sp + 1, Len(s)))

\* cliHandleLine(line): what the command leaves of the machine.  help, ls, cat
\* and status only print; an unknown command prints "unknown".
cliHandleLine(m, line) ==
  LET s == Trim(line)
      id == ToInt(CliArg(s))
  IN IF Len(s) = 0 THEN m
     ELSE IF CliCmd(s) = "setprofile"
     THEN IF id < 1 \/ id > NUM_PROFILES THEN m ELSE loadProfile(m, id)
     ELSE m

\* What the BEGIN branch does with the target it read: start recording, or
\* print the usage line.
beginStarts_AnyTarget(target) == TRUE
beginStarts(target) == Len(target) > 0

\* What the recording branch appends for a line.
bufferAppend_NoNewline(line) == serialBuffer \o line
bufferAppend(line) == (serialBuffer \o line) \o <<Newline>>

\* What a received line is to the upload protocol.
LineKind(received) ==
  LET line == Trim(received)
  IN IF line = <<END_MARK>> THEN "end"
     ELSE IF startsWithBegin(line)
     THEN IF Len(Trim(Tail(line))) > 0 THEN "begin" ELSE "begin_nofile"
     ELSE "other"

\* One pass of handleSerialInput's while loop: the line read up to '\n'.
\* A "reboot" line restarts the firmware and is not followed.
handleSerialInput(received) ==
  LET line == Trim(received)
      target == Trim(Tail(line))
      m == cliHandleLine(Machine, line)
  IN /\ awPc = "idle"
     /\ lineFlip' = ~lineFlip
     /\ lastKind' = LineKind(received)
     /\ lastLineRec' = serialRecording
     /\ IF ~serialRecording
        THEN IF startsWithBegin(line)
             THEN /\ IF beginStarts(target)
                     THEN /\ serialRecording' = TRUE
                          /\ serialBuffer' = <<>>
                          /\ serialTargetFile' = "/" \o Join(target)
                          /\ lastLineTo' = "begin"
                          /\ recLines' = <<>>
                     ELSE /\ lastLineTo' = "usage"
                          /\ UNCHANGED << serialVars, recLines >>
                  /\ loadCalls' = <<>>
                  /\ gestures' = <<>>
                  /\ UNCHANGED << profVars, fs, awVars, awHist >>
             ELSE /\ IF Len(line) > 0
                     THEN /\ CliCmd(line) # "reboot"
                          /\ lastLineTo' = "cli"
                          /\ currentProfile' = m.cur
                          /\ profileDoc' = m.doc
                          /\ profileLoaded' = m.loaded
                          /\ idleAnimation' = m.idle
                          /\ fs' = m.fs
                          /\ loadCalls' = m.loads
                          /\ gestures' = <<>>
                     ELSE /\ lastLineTo' = "prompt"
                          /\ loadCalls' = <<>>
                          /\ gestures' = <<>>
                          /\ UNCHANGED << profVars, fs >>
                  /\ UNCHANGED << serialVars, recLines, awVars, awHist >>
        ELSE IF line = <<END_MARK>>
             THEN /\ lastLineTo' = "end"
                  /\ IF Len(serialTargetFile) > 0
                     THEN /\ awPc' = "open"
                          /\ awTarget' = serialTargetFile
                          /\ awData' = serialBuffer
                          /\ awFsBefore' = fs
                          /\ awShort' = FALSE
                          /\ awCalls' = awCalls + 1
                          /\ UNCHANGED awResult
                     ELSE /\ awPc' = "ret"
                          /\ UNCHANGED << awTarget, awData, awResult, awHist >>
                  /\ loadCalls' = <<>>
                  /\ gestures' = <<>>
                  /\ UNCHANGED << serialVars, recLines, profVars, fs >>
             ELSE /\ Len(recLines) < MaxBufLines
                  /\ serialBuffer' = bufferAppend(line)
                  /\ lastLineTo' = "buffer"
                  /\ recLines' = Append(recLines, received)
                  /\ loadCalls' = <<>>
                  /\ gestures' = <<>>
                  /\ UNCHANGED << serialRecording, serialTargetFile, profVars, fs,
                                  awVars, awHist >>
     /\ UNCHANGED << now, raw, keyVars, macroRunning, jsonPartial, danglingRead, touchEnv,
                     touchVars, keyHist, hidLog, fires, lastFireAt, touchScans, bothSince >>

\* The END branch after atomicWriteToLittleFS returned: the result is printed
\* and the recording is closed.
handleSerialEnd ==
  /\ awPc = "ret"
  /\ awPc' = "idle"
  /\ serialRecording' = FALSE
  /\ serialTargetFile' = ""
  /\ serialBuffer' = <<>>
  /\ recLines' = <<>>
  /\ UNCHANGED << now, raw, keyVars, profVars, macroRunning, fs, jsonPartial, danglingRead,
                  touchEnv, touchVars, awTarget, awData, awResult, keyHist,
                  loadCalls, hidLog, lineFlip, lastKind, lastLineRec, lastLineTo,
                  awHist, touchHist >>

\* ------------------------------------------------------------ upload: the run
\* The lines the host sends while the firmware is idle, and while it records;
\* it starts at most MaxWrites uploads.
IdleLines ==
  { <<>>,
    <<BEGIN_MARK, Blank>>,
    <<BEGIN_MARK, Blank, "profile1.json", Blank>>,
    <<END_MARK>>,
    <<"setprofile", Blank, "2">>,
    <<"SETPROFILE", Blank, "1">>,
    <<"setprofile", Blank, "7">>,
    <<"status">> }
RecordingLines ==
  { <<END_MARK>>,
    <<Blank, "{B">>,
    <<CloseBrace, Blank>>,
    <<"setprofile", Blank, "2">> }

InitUpload ==
  /\ \E partial \in BOOLEAN : setup(UserFlash, AllReleased, 0, 0, partial)
  /\ danglingRead = "kept"

NextUpload ==
  \/ \E l \in IdleLines :
       /\ ~serialRecording
       /\ LineKind(l) = "begin" => awCalls < MaxWrites
       /\ handleSerialInput(l)
  \/ \E l \in RecordingLines : serialRecording /\ handleSerialInput(l)
  \/ AwOpen
  \/ AwWrite
  \/ AwShort
  \/ AwBackup
  \/ AwRemove
  \/ AwRename
  \/ handleSerialEnd

SpecUpload == InitUpload /\ [][NextUpload]_vars

\* ------------------------------------------------------------ keys: the run
KeyTickSteps == {30, 60}

InitKeys ==
  /\ \E r0 \in {AllReleased, FirstHeld} :
       setup(UserFlash, r0, 0, 0, FALSE)
  /\ danglingRead = "kept"

NextKeys ==
  \/ scanKeys
  \/ \E i \in Keys : RawChange(i)
  \/ \E d \in KeyTickSteps : Tick(d, MaxTime)

SpecKeys == InitKeys /\ [][NextKeys]_vars

\* ------------------------------------------------------------ keys while the loop is held
\* From the end of scanKeys' for loop to the next call of scanKeys: the loop's
\* delay(8), handleSerialInput with nothing to read, and the sampling of the
\* two touch pads with none touched.
LoopRestMs == LOOP_DELAY_MS + TOUCH_SAMPLE_MS + TOUCH_SAMPLE_MS

InitBlocked ==
  /\ \E c \in {"{A", "{B"} : setup(MacroFlash(c), AllReleased, 0, 0, FALSE)
  /\ danglingRead = "kept"

\* The keys are scanned one call of loop() after the other; a key's level
\* changes between two reads, or while a press of the other key holds the loop.
NextBlocked ==
  \/ scanKeysStep(MaxBlockedTime, LoopRestMs, NoChange)
  \/ \E env \in BlockedChanges : scanKeysStep(MaxBlockedTime, LoopRestMs, env)
  \/ \E i \in Keys : RawChange(i)

SpecBlocked == InitBlocked /\ [][NextBlocked]_vars

\* ------------------------------------------------------------ macros: the run
InitMacro ==
  /\ \E c \in {"{K", "{R", "{S", "{L", "{H", "{D"} : setup(MacroFlash(c), AllReleased, 0, 0, FALSE)
  /\ danglingRead \in DanglingReads

\* Time passes in the macros and in the 40 ms highlight of each press.
NextMacro ==
  \/ scanKeysWithin(MaxMacroTime)
  \/ \E i \in Keys : RawChange(i)

SpecMacro == InitMacro /\ [][NextMacro]_vars

\* ------------------------------------------------------------ touch
\* What touchRead can return for a pad: a level at the threshold above its
\* baseline (not yet a touch) and the level just past it.
TouchReadings == {TOUCH_DELTA, TOUCH_DELTA + 1}

\* touchPressed(pin): four samples averaged, compared with the baseline.
touchPressed(reading, base) ==
  LET sum == reading + reading + reading + reading
      v == sum \div 4
  IN (v - base) > TOUCH_DELTA

\* The reading of pad A or B changes.
TouchChange(pad, r) ==
  /\ IF pad = "A"
     THEN touchA # r /\ touchA' = r /\ UNCHANGED touchB
     ELSE touchB # r /\ touchB' = r /\ UNCHANGED touchA
  /\ UNCHANGED << now, raw, keyVars, profVars, macroRunning, serialVars, fs,
                  jsonPartial, danglingRead, baselineA, baselineB, touchVars, awVars, keyHist,
                  loadCalls, hidLog, serialHist, awHist, touchHist >>

\* Whether a pad's gesture fires: an edge, and the cooldown over.
touchFires_NoCooldown(active, last, t, lastDebounce) == active /\ ~last
touchFires(active, last, t, lastDebounce) ==
  active /\ ~last /\ t - lastDebounce > COOLDOWN_MS

\* The profile the next-profile gesture loads.
nextProfile_Clamped(cur) == IF cur + 1 > NUM_PROFILES THEN NUM_PROFILES ELSE cur + 1
nextProfile(cur) == IF cur + 1 > NUM_PROFILES THEN 1 ELSE cur + 1

\* The profile the previous-profile gesture loads.
prevProfile_Clamped(cur) == IF cur - 1 < 1 THEN 1 ELSE cur - 1
prevProfile(cur) == IF cur - 1 < 1 THEN NUM_PROFILES ELSE cur - 1

\* The machine after the first gesture, the second gesture and the both-held
\* reset. Each is computed once and handed on as a value.
touchAfterA(m0, fireA) ==
  IF fireA
  THEN flashAll(loadProfile(m0, nextProfile(m0.cur)), 1, FLASH_ON_MS, FLASH_OFF_SWITCH_MS)
  ELSE m0
touchAfterB(mA, fireB) ==
  IF fireB
  THEN flashAll(loadProfile(mA, prevProfile(mA.cur)), 1, FLASH_ON_MS, FLASH_OFF_SWITCH_MS)
  ELSE mA
touchAfterReset(mB, reset) ==
  IF reset
  THEN flashAll([mB EXCEPT !.loaded = FALSE], 3, FLASH_ON_MS, FLASH_OFF_MS)
  ELSE mB

\* One call of scanTouchProfileSwitch.
scanTouchWithin(limit) ==
  /\ awPc = "idle"
  /\ touchScans < MaxTouchScans
  /\ \E m0 \in {delay(Machine, TOUCH_SAMPLE_MS + TOUCH_SAMPLE_MS)} :
     \E a \in {touchPressed(touchA, baselineA)}, b \in {touchPressed(touchB, baselineB)} :
     \E fireA \in {touchFires(a, lastA, m0.t, touchLastDebounceA)} :
     \E mA \in {touchAfterA(m0, fireA)} :
     \E fireB \in {touchFires(b, lastB, mA.t, touchLastDebounceB)} :
     \E mB \in {touchAfterB(mA, fireB)} :
     \E started \in {IF bothStart = 0 THEN mB.t ELSE bothStart} :
     \E reset \in {a /\ b /\ mB.t - started > BOTH_HOLD_MS} :
     \E mR \in {touchAfterReset(mB, reset)} :
        /\ mR.t <= limit
        /\ now' = mR.t
        /\ currentProfile' = mR.cur
        /\ profileDoc' = mR.doc
        /\ profileLoaded' = mR.loaded
        /\ idleAnimation' = mR.idle
        /\ fs' = mR.fs
        /\ touchLastDebounceA' = IF fireA THEN mA.t ELSE touchLastDebounceA
        /\ touchLastDebounceB' = IF fireB THEN mB.t ELSE touchLastDebounceB
        /\ bothStart' = IF a /\ b /\ ~reset THEN started ELSE 0
        /\ lastA' = a
        /\ lastB' = b
        /\ loadCalls' = mR.loads
        /\ gestures' = (IF fireA THEN <<"A">> ELSE <<>>) \o (IF fireB THEN <<"B">> ELSE <<>>)
        /\ fires' = [p \in {"A", "B"} |->
                       IF (p = "A" /\ ~a) \/ (p = "B" /\ ~b) THEN 0
                       ELSE IF (p = "A" /\ fireA) \/ (p = "B" /\ fireB) THEN fires[p] + 1
                       ELSE fires[p]]
        /\ lastFireAt' = [p \in {"A", "B"} |->
                            IF p = "A" /\ fireA THEN m0.t
                            ELSE IF p = "B" /\ fireB THEN mA.t
                            ELSE lastFireAt[p]]
        /\ touchScans' = touchScans + 1
        /\ bothSince' = IF a /\ b THEN (IF bothSince = -1 THEN now ELSE bothSince) ELSE -1
        /\ hidLog' = mR.hid
        /\ UNCHANGED << raw, keyVars, macroRunning, serialVars, jsonPartial, danglingRead,
                        touchEnv, awVars, keyHist, serialHist, awHist >>

scanTouchProfileSwitch == scanTouchWithin(MaxTouchTime)

\* ------------------------------------------------------------ touch: the run
TouchTickSteps == {310}

InitTouch ==
  /\ \E f0 \in {UserFlash, CutFlash} : setup(f0, AllReleased, 0, 0, FALSE)
  /\ danglingRead = "kept"

NextTouch ==
  \/ scanTouchProfileSwitch
  \/ \E pad \in {"A", "B"}, r \in TouchReadings : TouchChange(pad, r)
  \/ \E d \in TouchTickSteps : Tick(d, MaxTouchTime)

SpecTouch == InitTouch /\ [][NextTouch]_vars

\* ------------------------------------------------------------ touch pads: the both-held failsafe
\* Whatever holds the loop between two scans while the pads stay touched. The
\* first key is followed from the moment the failsafe has fired.
FailsafeTickSteps == {1400}

InitFailsafe ==
  /\ setup(UserFlash, AllReleased, 0, 0, FALSE)
  /\ danglingRead = "kept"

NextFailsafe ==
  \/ scanTouchWithin(MaxFailsafeTime)
  \/ \E pad \in {"A", "B"}, r \in TouchReadings : TouchChange(pad, r)
  \/ scanKeysWithin(MaxFailsafeTime)
  \/ ~profileLoaded /\ RawChange(1)
  \/ \E d \in FailsafeTickSteps : Tick(d, MaxFailsafeTime)

SpecFailsafe == InitFailsafe /\ [][NextFailsafe]_vars

\* ------------------------------------------------------------ every way to change the profile
\* Flash whose first profile is the document of body chunk c and whose second
\* profile was cut before its closing brace, so that loading it fails.
ProfileFlash(c) ==
  [p \in {ProfilePath(1), ProfilePath(2)} |->
     IF p = ProfilePath(1) THEN <<c, CloseBrace, Newline>>
     ELSE <<"{B", Newline>>]

\* The lines the host sends: setprofile in and out of the range, and one upload
\* of at most one payload line that repairs the second profile.
ProfileIdleLines ==
  { <<BEGIN_MARK, Blank, "profile2.json">>,
    <<"setprofile", Blank, "2">>,
    <<"setprofile", Blank, "7">> }
ProfileRecordingLines ==
  { <<END_MARK>>, <<"{A", CloseBrace>> }

ProfileTickSteps == {310}

InitProfile ==
  /\ \E c \in {"{S", "{L"} : setup(ProfileFlash(c), AllReleased, 0, 0, FALSE)
  /\ danglingRead \in DanglingReads

\* loop() handles the serial input and the touch pads before it scans the
\* keys, and an upload arrives as one burst, before the pads and the keys are
\* used. Each pad is touched once and the second key is pressed once.
NextProfile ==
  \/ /\ touchScans < MaxProfileScans /\ scanPos = 1 /\ ~serialRecording
     /\ scanTouchWithin(MaxProfileTime)
  \/ \E pad \in {"A", "B"} :
       scanPos = 1 /\ ~serialRecording /\ TouchChange(pad, TOUCH_DELTA + 1)
  \/ ~serialRecording /\ scanKeysWithin(MaxProfileTime)
  \/ scanPos = 1 /\ ~serialRecording /\ ~raw[2] /\ RawChange(2)
  \/ \E l \in ProfileIdleLines :
       /\ ~serialRecording /\ scanPos = 1
       /\ LineKind(l) = "begin" =>
            /\ awCalls < MaxWrites
            /\ touchScans = 0 /\ touchA = 0 /\ touchB = 0 /\ ~raw[2]
       /\ handleSerialInput(l)
  \/ \E l \in ProfileRecordingLines :
       /\ serialRecording
       /\ LineKind(l) = "other" => recLines = <<>>
       /\ handleSerialInput(l)
  \/ AwOpen
  \/ AwWrite
  \/ AwShort
  \/ AwBackup
  \/ AwRemove
  \/ AwRename
  \/ handleSerialEnd
  \/ \E d \in ProfileTickSteps :
       scanPos = 1 /\ ~serialRecording /\ Tick(d, MaxProfileTime)

SpecProfile == InitProfile /\ [][NextProfile]_vars

\* ------------------------------------------------------------ a macro, a gesture and an upload
\* The second key, bound to a key combination, is pressed once, pad A is
\* touched once and the host uploads the file of the active profile in one burst.
RaceIdleLines == { <<BEGIN_MARK, Blank, "profile1.json">> }
RaceRecordingLines == { <<END_MARK>>, <<"{B", CloseBrace>> }

InitRace ==
  /\ setup(MacroFlash("{K"), AllReleased, 0, 0, FALSE)
  /\ danglingRead \in DanglingReads

\* atomicWriteToLittleFS and the END branch go on once they are entered.
RaceUploadSteps ==
  \/ AwOpen
  \/ AwWrite
  \/ AwShort
  \/ AwBackup
  \/ AwRemove
  \/ AwRename
  \/ handleSerialEnd

RaceTouchScan ==
  /\ touchScans < MaxProfileScans /\ scanPos = 1 /\ ~serialRecording
  /\ scanTouchWithin(MaxRaceTime)

\* The lines of an upload after its BEGIN line, which the same call of
\* handleSerialInput reads.
RaceBurst ==
  \E l \in RaceRecordingLines :
    /\ serialRecording
    /\ LineKind(l) = "other" => recLines = <<>>
    /\ handleSerialInput(l)

RaceKeyScan == ~serialRecording /\ scanKeysWithin(MaxRaceTime)

NextRace ==
  \/ RaceKeyScan
  \/ scanPos = 1 /\ ~serialRecording /\ ~raw[2] /\ RawChange(2)
  \/ RaceTouchScan
  \/ scanPos = 1 /\ ~serialRecording /\ touchA = 0 /\ TouchChange("A", TOUCH_DELTA + 1)
  \/ \E l \in RaceIdleLines :
       /\ ~serialRecording /\ scanPos = 1
       /\ awCalls < MaxWrites
       /\ handleSerialInput(l)
  \/ RaceBurst
  \/ RaceUploadSteps

\* loop() runs again and again: the lines of a burst are read to its END line,
\* a call of atomicWriteToLittleFS that was entered returns, the touch pads are
\* scanned and the keys are scanned.
SpecRace ==
  /\ InitRace /\ [][NextRace]_vars
  /\ WF_vars(RaceBurst) /\ WF_vars(RaceUploadSteps)
  /\ WF_vars(RaceTouchScan) /\ WF_vars(RaceKeyScan)

\* ------------------------------------------------------------ keys: properties
\* How long key i's level has been what it is now.
HeldFor(i) == now - rawChangedAt[i]

\* C1: scanKeys changes the stable level of a key only when the raw level has
\* differed from it for at least DEFAULT_DEBOUNCE_MS; a shorter change gives
\* no edge, whatever the time since the last committed edge.
C1_EdgeOnlyAfterDebounce ==
  [][\A i \in Keys :
       keyState'[i] # keyState[i] => HeldFor(i) >= DEFAULT_DEBOUNCE_MS]_vars

\* C2: a level that changes and is then held gives exactly one edge: no second
\* edge and no second macro start while the level stays, and once a scan has
\* read the level held for longer than the window the edge has been emitted.
C2_OneEdgePerHeldChange ==
  \A i \in Keys :
    /\ edges[i] <= 1
    /\ macroStarts[i] <= 1
    /\ heldScanned[i] =>
         /\ keyState[i] = raw[i]
         /\ awayAtChange[i] => edges[i] = 1

\* A press has been committed, has started its macro, is still held and has
\* been scanned again after another debounce window.
C2_Witness ==
  \E i \in Keys :
    /\ raw[i] /\ keyState[i]
    /\ awayAtChange[i] /\ edges[i] = 1 /\ macroStarts[i] = 1
    /\ heldScanned[i]
    /\ now - keyLastChange[i] > DEFAULT_DEBOUNCE_MS + KEY_FLASH_MS
    /\ scanPos # i

\* ------------------------------------------------------------ upload: properties
\* atomicWriteToLittleFS has been called and has not yet handed back to
\* handleSerialInput's END branch.
AwInCall == awPc \in {"write", "short", "backup", "remove", "rename", "ret"}

\* C3: at every step of atomicWriteToLittleFS and when it has returned, a
\* target that existed holds its complete old content or the complete new
\* content; it is never missing and never partly written.
C3_TargetOldOrNew ==
  (AwInCall /\ awCalls > 0 /\ FsExists(awFsBefore, awTarget)) =>
    /\ FsExists(fs, awTarget)
    /\ fs[awTarget] \in {awFsBefore[awTarget], awData}

\* C4: after a short write of the temporary file the call returns false, no
\* file is left at the temporary path, and every other file (the target, the
\* backups) is what it was before the call.
C4_ShortWriteLeavesTarget ==
  (awPc = "ret" /\ awShort) =>
    /\ awResult = FALSE
    /\ ~FsExists(fs, TmpPath(awTarget))
    /\ DOMAIN fs = DOMAIN awFsBefore \ {TmpPath(awTarget)}
    /\ \A p \in DOMAIN fs : fs[p] = awFsBefore[p]

\* A short write onto an existing target has returned.
C4_Witness ==
  /\ awPc = "ret" /\ awShort
  /\ FsExists(awFsBefore, awTarget)
  /\ Len(awData) > 1

\* C5: a loadProfile whose parse fails returns false and leaves the profile
\* document, currentProfile, profileLoaded and idleAnimation as they were.
C5_LoadAllOrNothing ==
  \A k \in DOMAIN loadCalls :
    loadCalls[k].why = "parse" =>
      /\ ~loadCalls[k].ok
      /\ loadCalls[k].after = loadCalls[k].before

\* C6: once an upload has been committed onto the active profile's file, the
\* profile in memory is the uploaded document.
C6_UploadReloadsActive ==
  ( /\ lastLineTo = "end" /\ awPc = "idle" /\ awCalls > 0
    /\ awResult
    /\ awTarget = ProfilePath(currentProfile)
    /\ ~deserializeJson(awData, FALSE).err ) =>
    profileDoc = deserializeJson(awData, FALSE).doc

RECURSIVE LinesText(_)
\* The lines as received, each followed by one newline.
LinesText(ls) ==
  IF ls = <<>> THEN <<>> ELSE (Head(ls) \o <<Newline>>) \o LinesText(Tail(ls))

RECURSIVE TrimmedLinesText(_)
\* The lines with their leading and trailing blanks removed, each followed by
\* one newline.
TrimmedLinesText(ls) ==
  IF ls = <<>> THEN <<>>
  ELSE (Trim(Head(ls)) \o <<Newline>>) \o TrimmedLinesText(Tail(ls))

\* What C7 says of the routing of lines and of the state after END.
UploadRouting ==
  /\ lastLineRec => lastLineTo \in {"buffer", "end"}
  /\ ~lastLineRec => lastLineTo # "buffer"
  /\ ~serialRecording => serialBuffer = <<>>
  /\ (lastLineTo = "end" /\ awPc = "idle") => ~serialRecording

C8_ProtocolErrorsIgnored ==
  [][(lineFlip' # lineFlip /\ ~serialRecording
        /\ lastKind' \in {"end", "begin_nofile"}) =>
       /\ ~serialRecording'
       /\ serialBuffer' = <<>>
       /\ awPc' = "idle"
       /\ awCalls' = awCalls
       /\ fs' = fs]_vars

\* A stray END has been read in Idle, after an upload changed a file.
C8_Witness ==
  /\ lastKind = "end" /\ ~lastLineRec /\ lastLineTo = "cli"
  /\ awCalls > 0 /\ awResult

\* ------------------------------------------------------------ touch: properties
\* C9: a pad's gesture fires at most once while the scans see the pad stay
\* active after it went from inactive to active, and a fire comes no sooner
\* than COOLDOWN_MS after the same pad's previous fire.
C9_GestureOncePerTouch ==
  [][\A pad \in {"A", "B"} :
       fires'[pad] > fires[pad] =>
         /\ fires[pad] = 0
         /\ lastFireAt[pad] >= 0 => lastFireAt'[pad] - lastFireAt[pad] >= COOLDOWN_MS]_vars

\* Pad A fired, was seen released, and was seen touched again inside the
\* cooldown without firing.
C9_Witness ==
  /\ lastA
  /\ fires["A"] = 0
  /\ lastFireAt["A"] >= 0
  /\ now - lastFireAt["A"] < COOLDOWN_MS

\* C10: every gesture fired by a scan made one loadProfile call, for the
\* profile after (pad A) or before (pad B) the current one, modulo
\* NUM_PROFILES, and the current profile stays in 1..NUM_PROFILES.
C10_GestureLoadsWrappedTarget ==
  /\ currentProfile \in Profiles
  /\ Len(gestures) > 0 =>
       /\ Len(loadCalls) = Len(gestures)
       /\ \A k \in 1..Len(gestures) :
            LET from == loadCalls[k].before.cur
            IN loadCalls[k].id = IF gestures[k] = "A"
                                 THEN (from % NUM_PROFILES) + 1
                                 ELSE ((from + NUM_PROFILES - 2) % NUM_PROFILES) + 1

\* One scan fired both gestures: next from the last profile to the first, then
\* previous from the first back to the last.
C10_Witness ==
  /\ gestures = <<"A", "B">>
  /\ Len(loadCalls) = 2
  /\ loadCalls[1].before.cur = NUM_PROFILES
  /\ loadCalls[1].id = 1
  /\ loadCalls[1].ok
  /\ loadCalls[2].id = NUM_PROFILES
  /\ loadCalls[2].ok

\* ------------------------------------------------------------ macros: properties
\* The last handler ran a binding; its actions, as the profile's file holds them.
MacroRan == Len(hidLog) > 0 /\ hidLog[1].ev = "macro"
RanActions ==
  FirstBinding(JsonBodyDoc("{" \o hidLog[1].arg[2]).keys, hidLog[1].arg[1])[1].actions

\* The positions of the history that hold a call of one of the kinds.
EventsOf(kinds) == {i \in DOMAIN hidLog : hidLog[i].ev \in kinds}

IsCombo(act) == "type" \in DOMAIN act /\ ToLower(act.type) = "keycombo"

\* C12: a key combination presses its modifiers, then its other keys, and
\* releases nothing before one release-all that ends it.
C12_ComboReleasesOnlyAtEnd ==
  (MacroRan /\ Len(RanActions) = 1 /\ IsCombo(RanActions[1])) =>
    /\ \A i \in EventsOf({"pressRaw", "print"}), j \in EventsOf({"press"}) : j < i
    /\ Cardinality(EventsOf({"releaseAll"})) = 1
    /\ \A i \in EventsOf({"press", "pressRaw", "print", "releaseRaw"}),
          j \in EventsOf({"releaseAll"}) : i < j
    /\ EventsOf({"releaseRaw"}) = {}

\* The types of the "action" calls of the history, in order.
ActionTrace ==
  LET idx == SelectSeq([i \in 1..Len(hidLog) |-> i], LAMBDA i : hidLog[i].ev = "action")
  IN [k \in 1..Len(idx) |-> hidLog[idx[k]].arg]

HasRepeat(actions) ==
  \E k \in DOMAIN actions :
    "type" \in DOMAIN actions[k] /\ ToLower(actions[k].type) = "repeat"

\* The number of passes the documentation gives a Repeat action.
DocumentedPasses(act) ==
  LET count == IF "count" \in DOMAIN act THEN act.count ELSE 1
      atLeastOne == IF count > 1 THEN count ELSE 1
  IN IF atLeastOne < MAX_REPEAT_COUNT THEN atLeastOne ELSE MAX_REPEAT_COUNT

RECURSIVE DocumentedTrace(_)
RECURSIVE DocumentedPassesTrace(_, _)
\* The action types a list runs when every Repeat runs its nested list
\* DocumentedPasses times, nested Repeats multiplying.
DocumentedTrace(actions) ==
  IF actions = <<>> THEN <<>>
  ELSE LET act == Head(actions)
           own == IF "type" \in DOMAIN act THEN << ToLower(act.type) >> ELSE <<>>
           nested == IF "type" \in DOMAIN act /\ ToLower(act.type) = "repeat"
                        /\ "actions" \in DOMAIN act
                     THEN DocumentedPassesTrace(act.actions, DocumentedPasses(act))
                     ELSE <<>>
       IN own \o nested \o DocumentedTrace(Tail(actions))
DocumentedPassesTrace(actions, n) ==
  IF n = 0 THEN <<>>
  ELSE DocumentedTrace(actions) \o DocumentedPassesTrace(actions, n - 1)

\* C13: a Repeat action runs its nested list min(max(count, 1), MAX_REPEAT_COUNT)
\* times, once when count is absent, and nested Repeats multiply.
C13_RepeatRunsClampedCount ==
  (MacroRan /\ HasRepeat(RanActions)) => ActionTrace = DocumentedTrace(RanActions)

\* The same on the runs in which no Profile action reloaded the document.
C13_RepeatClampedWithoutReload ==
  (MacroRan /\ HasRepeat(RanActions) /\ loadCalls = <<>>) =>
    ActionTrace = DocumentedTrace(RanActions)

\* C14: one bound sequence at a time. A binding is started only while
\* macroRunning is false, macroRunning is true at every call an action of the
\* sequence makes, and it is false again once the key press is handled.
C14_OneSequenceAtATime ==
  /\ ~macroRunning
  /\ \A i \in EventsOf({"macro"}) : ~hidLog[i].running
  /\ Cardinality(EventsOf({"macro"})) <= 1
  /\ MacroRan => \A i \in 2..Len(hidLog) : hidLog[i].running

\* A binding of several actions ran to its end.
C14_Witness ==
  /\ MacroRan
  /\ Len(RanActions) >= 2
  /\ Cardinality(EventsOf({"action"})) >= Len(RanActions)
  /\ macroStarts[hidLog[1].arg[1]] >= 1

\* The default-delay blocks between the action started at position i of the
\* history and the next action, or the end of the sequence.
DefaultDelaysAfter(i) ==
  LET later == {j \in EventsOf({"action"}) : j > i}
      stop == IF later = {} THEN Len(hidLog) + 1
              ELSE CHOOSE j \in later : \A k \in later : j <= k
  IN Cardinality({j \in EventsOf({"default_delay"}) : i < j /\ j < stop})

\* C17: every executed action is followed by one block of the profile's default
\* delay, except Delay and Text actions, which are followed by none.
C17_OneDefaultDelayPerAction ==
  (MacroRan /\ ~HasRepeat(RanActions)) =>
    \A i \in EventsOf({"action"}) :
      DefaultDelaysAfter(i) =
        IF hidLog[i].arg \in {"delay", "text", "multiline"} THEN 0 ELSE 1

\* The positions of a list that hold a Profile action.
ProfileActions(actions) ==
  {k \in DOMAIN actions :
     "type" \in DOMAIN actions[k] /\ ToLower(actions[k].type) = "profile"}

\* The target the documentation gives a Profile action: its value, 1 when it
\* has none, brought into 1..NUM_PROFILES.
DocumentedTarget(act) ==
  LET p == IF "value" \in DOMAIN act THEN act.value ELSE 1
  IN IF p < 1 THEN 1 ELSE IF p > NUM_PROFILES THEN NUM_PROFILES ELSE p

\* C20: a Profile action in a sequence loads the clamped target, and every
\* action after it in the binding that was started still runs, in order, with
\* the default delay of the profile that was loaded.
C20_ProfileActionContinues ==
  (MacroRan /\ ~HasRepeat(RanActions) /\ Cardinality(ProfileActions(RanActions)) = 1) =>
    LET k == CHOOSE k \in ProfileActions(RanActions) : TRUE
        at == CHOOSE i \in EventsOf({"action"}) :
                hidLog[i].arg = "profile"
    IN /\ Len(loadCalls) = 1
       /\ loadCalls[1].id = DocumentedTarget(RanActions[k])
       /\ loadCalls[1].ok /\ currentProfile = loadCalls[1].id
       /\ ActionTrace = DocumentedTrace(RanActions)
       /\ \A j \in EventsOf({"default_delay"}) :
             j > at => hidLog[j].arg = DefaultDelayOf(profileDoc)

\* The same on the runs in which the array of the replaced document still
\* reads as it did.
C20_ContinuesWhenArrayKept ==
  danglingRead = "kept" => C20_ProfileActionContinues

\* C18: flashAll holds the loop only while a macro is executing: macroRunning
\* is true at every call of it.
C18_FlashOnlyWhileMacroRuns ==
  \A i \in EventsOf({"flashAll"}) : hidLog[i].running

\* A step is a call of scanTouchProfileSwitch.
IsTouchScan == touchScans' = touchScans + 1

\* The scans have read both pads active for ms milliseconds up to this scan.
BothReadActiveFor(ms) == IsTouchScan /\ bothSince' # -1 /\ now - bothSince' >= ms

\* C11: once the scans have read both pads active for 3000 ms profileLoaded is
\* false, and while it is false no key press starts a macro; a scan that reads a
\* pad inactive restarts the timer, and the failsafe fires on no scan before
\* the pads were read active for 3000 ms.
C11_FailsafeAfterBothHeld ==
  /\ [](bothSince = -1 => bothStart = 0)
  /\ [][/\ BothReadActiveFor(BOTH_HOLD_MS) => ~profileLoaded'
        /\ ~profileLoaded => \A i \in Keys : macroStarts'[i] <= macroStarts[i]
        /\ (profileLoaded /\ ~profileLoaded') => BothReadActiveFor(BOTH_HOLD_MS)]_vars

\* The parts of it that do not depend on when the timer is started.
C11_FailsafeStopsMacros ==
  /\ [](bothSince = -1 => bothStart = 0)
  /\ [][/\ ~profileLoaded => \A i \in Keys : macroStarts'[i] <= macroStarts[i]
        /\ (profileLoaded /\ ~profileLoaded') => BothReadActiveFor(BOTH_HOLD_MS)]_vars

\* The default document the documentation gives profile id.
DocumentedDefault(id) ==
  [profile_name |-> "Profile" \o ToString(id), idle_animation |-> "none",
   default_delay |-> 30, keys |-> <<>>]

C16_LoadedAgain ==
  \E k \in DOMAIN loadCalls :
    /\ loadCalls[k].existed /\ loadCalls[k].had = serializeJson(loadCalls[k].id)
    /\ loadCalls[k].id = 1

\* C15: currentProfile is in 1..NUM_PROFILES in every state. Gestures wrap and
\* Profile actions clamp their target and setprofile rejects an argument out of
\* the range, so that loadProfile is called with an id of the range only, and a
\* load that fails leaves currentProfile as it was.
C15_ProfileInRange ==
  /\ currentProfile \in 1..NUM_PROFILES
  /\ \A k \in DOMAIN loadCalls :
        /\ loadCalls[k].id \in 1..NUM_PROFILES
        /\ loadCalls[k].after.cur \in 1..NUM_PROFILES
        /\ ~loadCalls[k].ok => loadCalls[k].after.cur = loadCalls[k].before.cur

\* A Profile action whose target is out of the range ran, and a load failed.
C15_Witness ==
  /\ MacroRan
  /\ \E k \in ProfileActions(RanActions) : RanActions[k].value \notin 1..NUM_PROFILES
  /\ loadCalls # <<>>
  /\ currentProfile = NUM_PROFILES

\* A gesture has switched the profile, or an upload has replaced a file.
SwitchedOrCommitted ==
  \/ gestures # <<>>
  \/ awPc = "ret" /\ awResult

\* A macro is running while a gesture or an upload commit changes the profile.
RaceState == macroRunning /\ SwitchedOrCommitted

\* C19 as stated: a state is reached in which a macro is running and a touch
\* gesture or an upload commit changes the active profile or its file.
C19_RaceReached == <>RaceState

\* C19: neither the gesture nor the upload reads macroRunning, but a macro runs
\* to its end inside scanKeys: macroRunning is false whenever a gesture
\* switches the profile and whenever an upload is in progress or commits, and
\* every call a gesture makes is made with macroRunning false.
C19_SwitchOnlyBetweenMacros ==
  /\ (SwitchedOrCommitted \/ serialRecording \/ awPc # "idle") => ~macroRunning
  /\ gestures # <<>> => \A i \in DOMAIN hidLog : ~hidLog[i].running

\* After the macro of the second key ran to its end a gesture switched the
\* profile.
C19_Witness ==
  /\ macroStarts[2] >= 1
  /\ gestures # <<>>
  /\ loadCalls # <<>> /\ loadCalls[1].ok
  /\ currentProfile = 2

\* ------------------------------------------------------------ held keys: properties
\* The codes Keyboard.press has pressed and no Keyboard.releaseAll has released
\* after, once the first n calls of the history are made.
HeldAfter(n) ==
  {hidLog[i].arg : i \in {i \in EventsOf({"press"}) :
                            /\ i <= n
                            /\ \A j \in EventsOf({"releaseAll"}) : ~(i < j /\ j <= n)}}

\* The positions of the history at which a Hold action pressed its key.
HoldPresses ==
  {i \in EventsOf({"press"}) :
     i > 1 /\ hidLog[i - 1].ev = "action" /\ hidLog[i - 1].arg = "hold"}

\* An action of one of the types started after position i, up to position n.
ActionBetween(types, i, n) ==
  \E j \in (i + 1)..n : hidLog[j].ev = "action" /\ hidLog[j].arg \in types

\* Whether a list holds a Hold action that names a key, and whether it holds an
\* action that calls Keyboard.releaseAll.
HasHold(actions) ==
  \E k \in DOMAIN actions :
    /\ "type" \in DOMAIN actions[k] /\ ToLower(actions[k].type) = "hold"
    /\ "key" \in DOMAIN actions[k]
HasReleasing(actions) ==
  \E k \in DOMAIN actions :
    "type" \in DOMAIN actions[k] /\ ToLower(actions[k].type) \in {"release", "keycombo"}

\* C21: a key pressed by a Hold action stays pressed across the later actions
\* of the sequence and after the macro has ended, until a Release action
\* executes; no action other than Release releases it.
C21_HeldUntilRelease ==
  MacroRan =>
    \A i \in HoldPresses : \A n \in i..Len(hidLog) :
      ~ActionBetween({"release"}, i, n) => hidLog[i].arg \in HeldAfter(n)

\* The same with the KeyCombo action counted as releasing, and the key still
\* pressed at the end of a sequence that holds neither.
C21_HeldUntilReleaseOrCombo ==
  MacroRan =>
    /\ \A i \in HoldPresses : \A n \in i..Len(hidLog) :
          ~ActionBetween({"release", "keycombo"}, i, n) => hidLog[i].arg \in HeldAfter(n)
    /\ (HasHold(RanActions) /\ ~HasReleasing(RanActions) /\ loadCalls = <<>>) =>
          HeldAfter(Len(hidLog)) # {}

\* ------------------------------------------------------------ keys while the loop is held: properties
\* C22: key presses are not queued while the loop is held. A key that was
\* pressed and released while a macro or the highlight of another key held the
\* loop gives no edge and runs no macro afterwards; a key that was pressed
\* meanwhile and is still held has its Pressed edge once scanKeys has read it.
C22_PressesNotQueued ==
  \A j \in Keys :
    /\ (blockedChange[j] = "tap" /\ ~raw[j] /\ ~awayAtChange[j]) =>
          ~keyState[j] /\ edges[j] = 0 /\ macroStarts[j] = 0
    /\ (blockedChange[j] = "scanned" /\ raw[j] /\ awayAtChange[j]) =>
          keyState[j] /\ edges[j] = 1

\* A key pressed while the other key's press held the loop was read by the
\* next scan, which ran its macro.
C22_Witness ==
  \E j \in Keys :
    /\ blockedChange[j] = "scanned" /\ raw[j] /\ awayAtChange[j]
    /\ keyState[j] /\ edges[j] = 1 /\ macroStarts[j] = 1
    /\ MacroRan /\ hidLog[1].arg[1] = j

\* A key was pressed and released while the other key's macro held the loop,
\* and scanKeys has read it since.
C22_TapScanned ==
  \E j \in Keys :
    /\ blockedChange[j] = "tap" /\ ~raw[j] /\ ~awayAtChange[j]
    /\ scanPos # j /\ now - rawChangedAt[j] > LoopRestMs

\* ------------------------------------------------------------ bindings of one id: properties
\* The positions of the key list whose binding has the id.
BindingsOf(keysArr, id) ==
  {k \in DOMAIN keysArr : "id" \in DOMAIN keysArr[k] /\ keysArr[k].id = id}

\* The calls a press of key i makes when the binding at position k of the
\* active profile is the one consulted.
CallsOfBinding(i, k) ==
  IF "actions" \in DOMAIN profileDoc.keys[k]
  THEN runActions([MacroStart(Machine, i) EXCEPT !.running = TRUE],
                  profileDoc.keys[k].actions).hid
  ELSE <<>>

\* C23: runMacroForKey consults only the first binding whose id is the pressed
\* key. Of several bindings with the id only the first one's actions run, and
\* when the first has no action list nothing runs, whatever a later binding of
\* the id holds.
C23_FirstBindingOnly ==
  [][\A i \in Keys :
       macroStarts'[i] > macroStarts[i] =>
         LET idx == BindingsOf(profileDoc.keys, i)
         IN hidLog' = IF idx = {} THEN <<>>
                      ELSE CallsOfBinding(i, CHOOSE k \in idx : \A l \in idx : k <= l)]_vars

\* With two bindings for each key, the press of the first key ran a macro and
\* the press of the second key, whose first binding has no action list, ran
\* nothing.
C23_Witness ==
  /\ \A i \in Keys : Cardinality(BindingsOf(profileDoc.keys, i)) = 2
  /\ macroStarts[1] = 1 /\ macroStarts[2] = 1
  /\ keyState[1] /\ keyState[2]
  /\ hidLog = <<>>

\* The press of a key with two bindings ran the first one's actions.
C23_FirstRan ==
  /\ MacroRan /\ hidLog[1].arg = << 1, "D" >>
  /\ {hidLog[k].arg : k \in EventsOf({"pressRaw"})} = {keyNameToHid("A")}

\* ------------------------------------------------------------ both pads touched at once: properties
\* The scan about to run reads both pads active after a scan that read both
\* inactive, with more than COOLDOWN_MS gone since each pad's last gesture.
BothPadsNewlyActive ==
  /\ TOUCH_DELTA < touchA - baselineA /\ TOUCH_DELTA < touchB - baselineB
  /\ ~lastA /\ ~lastB
  /\ now - touchLastDebounceA > COOLDOWN_MS
  /\ now - touchLastDebounceB > COOLDOWN_MS

\* C24: when both pads go from inactive to active in one scan and neither is
\* in cooldown, that scan fires the next-profile gesture and then the
\* previous-profile gesture: loadProfile is called twice, and when both loads
\* succeed currentProfile is after the scan what it was before.
C24_BothGesturesCancel ==
  [][(IsTouchScan /\ BothPadsNewlyActive) =>
       /\ gestures' = << "A", "B" >>
       /\ Len(loadCalls') = 2
       /\ loadCalls'[1].id = (currentProfile % NUM_PROFILES) + 1
       /\ loadCalls'[2].id =
            ((loadCalls'[1].after.cur + NUM_PROFILES - 2) % NUM_PROFILES) + 1
       /\ (loadCalls'[1].ok /\ loadCalls'[2].ok) => currentProfile' = currentProfile]_vars

\* One scan loaded the next profile and then the profile it had started from,
\* each followed by its flash.
C24_Witness ==
  /\ gestures = << "A", "B" >> /\ Len(loadCalls) = 2
  /\ loadCalls[1].ok /\ loadCalls[2].ok
  /\ loadCalls[1].id # loadCalls[1].before.cur
  /\ currentProfile = loadCalls[1].before.cur
  /\ touchLastDebounceB - touchLastDebounceA = FLASH_ON_MS + FLASH_OFF_SWITCH_MS
  /\ lastA /\ lastB

\* One scan fired both gestures and the first load failed.
C24_FirstLoadFailed ==
  /\ gestures = << "A", "B" >> /\ Len(loadCalls) = 2
  /\ ~loadCalls[1].ok /\ loadCalls[2].ok

====
